---- MODULE Spec2Model ----
(***************************************************************************)
(* A model of graph/base.py (Graphine): the Graph container with its uid   *)
(* allocator, node and edge stores, adjacency index, mutation operations,  *)
(* worklist traversal and subgraph extraction.                             *)
(*                                                                         *)
(* The graph under test is built as in graph/test.py:                      *)
(*      Graph(["city"], ["distance"])                                      *)
(* Records (namedtuples) are functions from field names to values.         *)
(* adjacency_list is a defaultdict(set): it is modelled as a total         *)
(* function whose value at a key that the dict does not hold is {} (every  *)
(* read in base.py goes through [] or .get(uid, set()), so an absent key   *)
(* and an empty entry cannot be told apart by any operation).              *)
(***************************************************************************)
EXTENDS Integers, Sequences, FiniteSets, TLC

\* ------------------------------------------------------------------------
\* Bounds of the model
\* ------------------------------------------------------------------------
MaxNodes == 3
MaxEdges == 2
MaxCalls == 6
\* the calls graph[uid] = value among them
MaxItemCalls == 1

NodeIds == 1..MaxNodes
EdgeIds == {0 - i : i \in 1..MaxEdges}
Uids == NodeIds \cup EdgeIds

\* attribute values used for "city" and "distance"; new records are given
\* the values in NewVals, modify_node and modify_edge any of AttrVals
AttrVals == {1, 2}
NewVals == {1}

\* ------------------------------------------------------------------------
\* Schema (Graph.__init__)
\* ------------------------------------------------------------------------
required_node_properties == {}
required_edge_properties == {"start", "end"}

\* the properties the graph is constructed with
node_properties == {"city"}
edge_properties == {"distance"}

NodeFields == required_node_properties \cup node_properties
EdgeFields == required_edge_properties \cup edge_properties

\* a keyword that is in neither schema
BadField == "name"

FieldVals(f) == IF f \in required_edge_properties THEN NodeIds
                ELSE IF f = BadField THEN {1} ELSE AttrVals


\* the keyword-argument dictionaries over a set of names: every assignment to
\* a subset of the names, the unknown keyword alone or with one other name
KwArgs(names) ==
  UNION { { kw \in [D -> NodeIds \cup AttrVals] : \A f \in D : kw[f] \in FieldVals(f) }
          : D \in { E \in SUBSET names : BadField \in E => Cardinality(E) <= 2 } }

\* the keyword-argument dictionaries handed to add_node and add_edge
NewKwArgs(names) == { kw \in KwArgs(names) : \A f \in DOMAIN kw : kw[f] \in NewVals }

NoRec == [none |-> 0]

\* ------------------------------------------------------------------------
\* Helpers for dicts, deques and sets
\* ------------------------------------------------------------------------
Put(d, k, v) == [x \in (DOMAIN d) \cup {k} |-> IF x = k THEN v ELSE d[x]]

Pop(d, k) == [x \in (DOMAIN d) \ {k} |-> d[x]]

Front(s) == SubSeq(s, 1, Len(s) - 1)

Last(s) == s[Len(s)]

Range(s) == {s[i] : i \in DOMAIN s}

\* all orders in which a set can be iterated
Orders(S) == { s \in [1..Cardinality(S) -> S] : Range(s) = S }

\* ------------------------------------------------------------------------
\* A Graph object
\* ------------------------------------------------------------------------
EmptyGraph ==
  [ nodes |-> <<>>,
    edges |-> <<>>,
    adjacency_list |-> [n \in NodeIds |-> {}],
    unused_node_uids |-> <<>>,
    unused_edge_uids |-> <<>> ]

\* result of a call: the graph afterwards, whether it returned (ok) or
\* raised (exc names the exception), the uid returned, the record returned
Return(g, ret, rec) == [g |-> g, ok |-> TRUE, exc |-> "none", ret |-> ret, rec |-> rec]

Raise(g, exc) == [g |-> g, ok |-> FALSE, exc |-> exc, ret |-> 0, rec |-> NoRec]

\* namedtuple construction: the keywords must be exactly the fields
Node(kw) == [f \in NodeFields |-> kw[f]]

Edge(start, end, kw) ==
  [f \in EdgeFields |-> IF f = "start" THEN start ELSE IF f = "end" THEN end ELSE kw[f]]

\* namedtuple._replace
replace(rec, kw) == [f \in DOMAIN rec |-> IF f \in DOMAIN kw THEN kw[f] ELSE rec[f]]

get_node_uid(g) ==
  IF Len(g.unused_node_uids) > 0
  THEN [uid |-> Last(g.unused_node_uids), rest |-> Front(g.unused_node_uids)]
  ELSE [uid |-> Cardinality(DOMAIN g.nodes) + 1, rest |-> g.unused_node_uids]

\* get_edge_uid reading the top of the free list without taking it off
get_edge_uid_peek(g) ==
  IF Len(g.unused_edge_uids) > 0
  THEN [uid |-> Last(g.unused_edge_uids), rest |-> g.unused_edge_uids]
  ELSE [uid |-> 0 - Cardinality(DOMAIN g.edges) - 1, rest |-> g.unused_edge_uids]

get_edge_uid(g) ==
  IF Len(g.unused_edge_uids) > 0
  THEN [uid |-> Last(g.unused_edge_uids), rest |-> Front(g.unused_edge_uids)]
  ELSE [uid |-> 0 - Cardinality(DOMAIN g.edges) - 1, rest |-> g.unused_edge_uids]

\* add_node: the uid is taken first, then the record is built (TypeError
\* when the keywords are not exactly the fields)
add_node(g, kw) ==
  LET a  == get_node_uid(g)
      g1 == [g EXCEPT !.unused_node_uids = a.rest]
  IN  IF DOMAIN kw = NodeFields
      THEN Return([g1 EXCEPT !.nodes = Put(g1.nodes, a.uid, Node(kw))], a.uid, NoRec)
      ELSE Raise(g1, "TypeError")

\* add_edge: kw holds the keywords other than start and end
add_edge(g, start, end, kw) ==
  LET a  == get_edge_uid(g)
      g1 == [g EXCEPT !.unused_edge_uids = a.rest]
  IN  IF DOMAIN kw = edge_properties
      THEN Return([g1 EXCEPT !.edges = Put(g1.edges, a.uid, Edge(start, end, kw)),
                             !.adjacency_list[start] = @ \cup {a.uid}],
                  a.uid, NoRec)
      ELSE Raise(g1, "TypeError")

\* __getitem__: positive uids name nodes, the others edges
getitem(g, uid) ==
  IF uid > 0
  THEN IF uid \in DOMAIN g.nodes THEN Return(g, uid, g.nodes[uid])
                                 ELSE Raise(g, "KeyError")
  ELSE IF uid \in DOMAIN g.edges THEN Return(g, uid, g.edges[uid])
                                 ELSE Raise(g, "KeyError")

\* the adjacency index after adjacency_list[old].remove(uid) and
\* adjacency_list[new].add(uid), for old # new
moved(adj, uid, old, new) ==
  [n \in DOMAIN adj |-> IF n = new THEN adj[n] \cup {uid}
                        ELSE IF n = old THEN adj[n] \ {uid}
                        ELSE adj[n]]

\* __setitem__: under a positive uid the value is stored, whether or not the
\* uid is a key of the node store; under another uid the stored edge is read
\* (KeyError), value.start is read (AttributeError for a record without a
\* start), and the value is stored only when its start is the stored one,
\* otherwise the uid is moved in the adjacency index and the record is left
\* as it was.  set.remove raises KeyError when the uid is not in the entry.
\* ("is" on the small integers used as uids is equality.)
\* The assignment returns nothing (ret 0).
setitem(g, uid, value) ==
  IF uid > 0
  THEN Return([g EXCEPT !.nodes = Put(g.nodes, uid, value)], 0, NoRec)
  ELSE IF uid \notin DOMAIN g.edges
       THEN Raise(g, "KeyError")
       ELSE LET e == g.edges[uid] IN
            IF "start" \notin DOMAIN value
            THEN Raise(g, "AttributeError")
            ELSE IF e["start"] = value["start"]
            THEN Return([g EXCEPT !.edges = Put(g.edges, uid, value)], 0, NoRec)
            ELSE IF uid \notin g.adjacency_list[e["start"]]
                 THEN Raise(g, "KeyError")
                 ELSE Return([g EXCEPT !.adjacency_list =
                                 moved(g.adjacency_list, uid, e["start"], value["start"])],
                             0, NoRec)

\* modify_node: n = self[uid]; n = n._replace(**kwargs); self[uid] = n
\* (_replace raises ValueError for a keyword that is not a field)
modify_node(g, uid, kw) ==
  LET r == getitem(g, uid) IN
  IF ~r.ok THEN Raise(g, r.exc)
  ELSE IF ~(DOMAIN kw \subseteq DOMAIN r.rec) THEN Raise(g, "ValueError")
  ELSE LET s == setitem(g, uid, replace(r.rec, kw)) IN
       IF ~s.ok THEN Raise(s.g, s.exc)
       ELSE Return(s.g, uid, NoRec)

\* the tail of modify_edge, after self[uid] = e
relocate(g, uid, old_edge, e) ==
  IF "start" \notin DOMAIN old_edge
  THEN Raise(g, "AttributeError")
  ELSE IF old_edge["start"] = e["start"]
  THEN Return(g, uid, NoRec)
  ELSE IF uid \notin g.adjacency_list[old_edge["start"]]
  THEN Raise(g, "KeyError")
  ELSE Return([g EXCEPT !.adjacency_list =
                  moved(g.adjacency_list, uid, old_edge["start"], e["start"])],
              uid, NoRec)

modify_edge(g, uid, kw) ==
  LET r == getitem(g, uid) IN
  IF ~r.ok THEN Raise(g, r.exc)
  ELSE IF ~(DOMAIN kw \subseteq DOMAIN r.rec) THEN Raise(g, "ValueError")
  ELSE LET e == replace(r.rec, kw)
           s == setitem(g, uid, e) IN
       IF ~s.ok THEN Raise(s.g, s.exc)
       ELSE relocate(s.g, uid, r.rec, e)

\* remove_node deleting, with the node, the edges that start at it
remove_node_cascade(g, uid) ==
  IF uid \notin DOMAIN g.nodes
  THEN Raise(g, "KeyError")
  ELSE Return([g EXCEPT !.nodes = Pop(g.nodes, uid),
                        !.edges = [e \in {x \in DOMAIN g.edges : g.edges[x]["start"] # uid}
                                     |-> g.edges[e]],
                        !.adjacency_list[uid] = {},
                        !.unused_node_uids = Append(@, uid)],
              uid, g.nodes[uid])

\* remove_node popping with a default, so that an unknown uid does not raise
remove_node_default(g, uid) ==
  Return([g EXCEPT !.nodes = Pop(g.nodes, uid),
                   !.unused_node_uids = Append(@, uid)],
         uid, NoRec)

\* remove_node: pop the record, drop the adjacency entry, recycle the uid
remove_node(g, uid) ==
  IF uid \notin DOMAIN g.nodes
  THEN Raise(g, "KeyError")
  ELSE Return([g EXCEPT !.nodes = Pop(g.nodes, uid),
                        !.adjacency_list[uid] = {},
                        !.unused_node_uids = Append(@, uid)],
              uid, g.nodes[uid])

\* remove_edge: pop the record, take the uid out of the entry of its start
\* (KeyError when it is not there), recycle the uid
remove_edge(g, uid) ==
  IF uid \notin DOMAIN g.edges
  THEN Raise(g, "KeyError")
  ELSE LET e  == g.edges[uid]
           g1 == [g EXCEPT !.edges = Pop(g.edges, uid)] IN
       IF uid \notin g1.adjacency_list[e["start"]]
       THEN Raise(g1, "KeyError")
       ELSE Return([g1 EXCEPT !.adjacency_list[e["start"]] = @ \ {uid},
                              !.unused_edge_uids = Append(@, uid)],
                   uid, e)

size(g) == Cardinality(DOMAIN g.edges)

order(g) == Cardinality(DOMAIN g.nodes)

\* ------------------------------------------------------------------------
\* Traversal (get_adjacent_uids, a_star_traversal and its two selectors)
\* ------------------------------------------------------------------------
\* get_adjacent_uids(uid) with the adjacency entry iterated in the order ord:
\* the uid itself, then the end of every indexed edge; self[edge_uid] raises
\* KeyError for a uid that is not in the edge store, which ends the sequence.
\* The result is the uids yielded and whether the generator raised.
RECURSIVE adjacent_from(_, _, _, _)
adjacent_from(g, ord, i, acc) ==
  IF i > Len(ord) THEN [uids |-> acc, raised |-> FALSE]
  ELSE IF ~getitem(g, ord[i]).ok THEN [uids |-> acc, raised |-> TRUE]
  ELSE adjacent_from(g, ord, i + 1, Append(acc, getitem(g, ord[i]).rec["end"]))

\* get_adjacent_uids iterating the edge store instead of the entry of uid
get_adjacent_uids_any(g, uid, ord) ==
  adjacent_from(g, CHOOSE s \in Orders(DOMAIN g.edges) : TRUE, 1, <<uid>>)

get_adjacent_uids(g, uid, ord) == adjacent_from(g, ord, 1, <<uid>>)

\* get_adjacent_nodes(uid): self[uid] for every uid that get_adjacent_uids
\* yields; the result is the records yielded and whether the generator raised
RECURSIVE nodes_of(_, _, _, _)
nodes_of(g, a, i, acc) ==
  IF i > Len(a.uids) THEN [nodes |-> acc, raised |-> a.raised]
  ELSE IF ~getitem(g, a.uids[i]).ok THEN [nodes |-> acc, raised |-> TRUE]
  ELSE nodes_of(g, a, i + 1, Append(acc, getitem(g, a.uids[i]).rec))

get_adjacent_nodes(g, uid, ord) == nodes_of(g, get_adjacent_uids(g, uid, ord), 1, <<>>)

\* get_outgoing_uids(uid): the adjacency index is called like a function
\* instead of being subscripted, and a defaultdict is not callable, so the
\* generator raises TypeError before it yields anything, whatever the uid.
\* The result is the uids yielded and whether the generator raised.
get_outgoing_uids(g, uid) == [uids |-> <<>>, raised |-> TRUE, exc |-> "TypeError"]

\* get_outgoing_edges(uid): self[uid] for every uid that get_outgoing_uids
\* yields; the result is the records yielded and whether the generator raised
RECURSIVE edges_of(_, _, _, _)
edges_of(g, a, i, acc) ==
  IF i > Len(a.uids)
  THEN [edges |-> acc, raised |-> a.raised, exc |-> a.exc]
  ELSE IF ~getitem(g, a.uids[i]).ok
  THEN [edges |-> acc, raised |-> TRUE, exc |-> "KeyError"]
  ELSE edges_of(g, a, i + 1, Append(acc, getitem(g, a.uids[i]).rec))

get_outgoing_edges(g, uid) == edges_of(g, get_outgoing_uids(g, uid), 1, <<>>)

\* both walks selecting with s.pop()
selected_pop(mode, s) == Last(s)

\* the selectors of depth_first_traversal (s.pop()) and
\* breadth_first_traversal (s.popleft())
selected(mode, s) == IF mode = "dfs" THEN Last(s) ELSE Head(s)

remaining(mode, s) == IF mode = "dfs" THEN Front(s) ELSE Tail(s)

\* the inner loop of a_star_traversal: append what is neither waiting nor
\* visited
RECURSIVE append_unseen(_, _, _, _)
append_unseen(unv, vis, uids, i) ==
  IF i > Len(uids) THEN unv
  ELSE IF uids[i] \in Range(unv) \/ uids[i] \in Range(vis)
       THEN append_unseen(unv, vis, uids, i + 1)
       ELSE append_unseen(Append(unv, uids[i]), vis, uids, i + 1)

\* a_star_traversal from its start to the first yield: the root is appended
\* to unvisited, selected and yielded; the graph is not read
a_star_start(mode, root_uid) ==
  [ unvisited |-> remaining(mode, <<root_uid>>), visited |-> <<>>,
    next_uid |-> selected(mode, <<root_uid>>),
    raised |-> FALSE, done |-> FALSE ]

\* a_star_traversal from one yield to the next: the generator is suspended at
\* "yield next_uid" with uid popped and not yet in visited; resumed, it
\* appends uid to visited, looks up the adjacent uids of uid in the graph as
\* it is now, tests the while condition and, when something is waiting,
\* selects the uid to yield next.  The result is the frame at the next yield
\* (next_uid, unvisited, visited), or the frame in which the generator
\* returned (done) or raised.
a_star_step(g, mode, unv, vis, uid, ord) ==
  LET vis1 == Append(vis, uid)
      adj  == get_adjacent_uids(g, uid, ord)
      unv1 == append_unseen(unv, vis1, adj.uids, 1)
  IN  IF adj.raised \/ unv1 = <<>>
      THEN [ unvisited |-> unv1, visited |-> vis1, next_uid |-> 0,
             raised |-> adj.raised, done |-> ~adj.raised ]
      ELSE [ unvisited |-> remaining(mode, unv1), visited |-> vis1,
             next_uid |-> selected(mode, unv1),
             raised |-> FALSE, done |-> FALSE ]

\* ------------------------------------------------------------------------
\* search_nodes and search_edges
\* ------------------------------------------------------------------------
\* A dict keeps its keys in a table of entries, in the order in which they
\* were inserted: the entry of a deleted key stays in the table, empty (0
\* here), and usable is the number of entries the table can still take.
\* capacity(used) is the number of entries of the table that an insertion
\* makes when no entry is usable: the table of 8 slots of a new dict takes 5,
\* the table made for used live keys (of 3 * used slots, rounded up to a
\* power of two above 8) takes 10 for up to 5 keys and 21 for up to 10.
capacity(used) == IF used = 0 THEN 5 ELSE IF used <= 5 THEN 10 ELSE 21

NewTable == [entries |-> <<>>, usable |-> capacity(0)]

\* the table of a dict after a call that left it with the keys new: the
\* entry of a key that was deleted is emptied, a key that was assigned to
\* keeps its entry, a key that was added takes the next entry; when no entry
\* is usable the table is rebuilt first, the live keys moved to the front
\* and the empty entries dropped.  A call adds at most one key.
slots(table, new) ==
  LET kept  == [i \in DOMAIN table.entries |->
                  IF table.entries[i] \in new THEN table.entries[i] ELSE 0]
      added == new \ Range(table.entries)
      live  == SelectSeq(kept, LAMBDA k : k # 0)
  IN  IF added = {} THEN [table EXCEPT !.entries = kept]
      ELSE IF table.usable > 0
      THEN [entries |-> kept \o (CHOOSE s \in Orders(added) : TRUE),
            usable |-> table.usable - 1]
      ELSE [entries |-> live \o (CHOOSE s \in Orders(added) : TRUE),
            usable |-> capacity(Len(live)) - Len(live) - 1]

\* the tables of self.nodes and self.edges after a call that left the graph
\* as g
slots_after(tables, g) ==
  [nodes |-> slots(tables.nodes, DOMAIN g.nodes),
   edges |-> slots(tables.edges, DOMAIN g.edges)]

\* The generator of a search is a frame: the keywords kw in the order ks of
\* kwargs.items(); the dict iterator of get_nodes / get_edges over the store
\* (used: the size of the dict when the iterator was made; left: the number
\* of values the iterator has still to give; pos: the number of entries of
\* the table it has passed); uid and rec, the key and the record in hand,
\* and ki, the keyword at which the generator is suspended; status, and exc
\* when it raised.
NewScan(store, kw, ks, used) ==
  [ store |-> store, kw |-> kw, ks |-> ks, used |-> used, left |-> used,
    pos |-> 0, uid |-> 0, rec |-> NoRec, ki |-> 0,
    status |-> "new", exc |-> "none" ]

\* the inner loop as a conjunction: the record is yielded once, when every
\* keyword holds
matches_all(rec, kw, ks, i) ==
  IF i > Len(ks) THEN [hit |-> FALSE, raised |-> FALSE, ki |-> i]
  ELSE IF \E k \in Range(ks) : k \notin DOMAIN rec
  THEN [hit |-> FALSE, raised |-> TRUE, ki |-> i]
  ELSE [hit |-> i = 1 /\ \A k \in Range(ks) : kw[k] = rec[k],
        raised |-> FALSE, ki |-> Len(ks)]

\* the inner loop over the keywords, from the i-th on, for the record in
\* hand: the generator yields at the first keyword whose value equals the
\* attribute of the record (hit, at ki), and goes on with the next keyword
\* when it is resumed; getattr raises AttributeError for a keyword that is
\* not a field
RECURSIVE matches(_, _, _, _)
matches(rec, kw, ks, i) ==
  IF i > Len(ks) THEN [hit |-> FALSE, raised |-> FALSE, ki |-> i]
  ELSE IF ks[i] \notin DOMAIN rec THEN [hit |-> FALSE, raised |-> TRUE, ki |-> i]
  ELSE IF kw[ks[i]] = rec[ks[i]] THEN [hit |-> TRUE, raised |-> FALSE, ki |-> i]
  ELSE matches(rec, kw, ks, i + 1)

\* the outer loop from entry pos on, over the store and its table as they
\* are now: the dict iterator raises RuntimeError when the size of the dict
\* is not the one it started with, or when it comes to a record after it has
\* given as many as the dict held; it skips the empty entries and reads the
\* value stored now.  The result is the frame at the next yield, or the
\* frame in which the generator returned (done) or raised.
RECURSIVE search(_, _, _, _)
search(store, entries, f, pos) ==
  IF Cardinality(DOMAIN store) # f.used
  THEN [f EXCEPT !.status = "raised", !.exc = "RuntimeError"]
  ELSE IF pos > Len(entries) THEN [f EXCEPT !.status = "done"]
  ELSE IF entries[pos] = 0 THEN search(store, entries, f, pos + 1)
  ELSE IF f.left = 0 THEN [f EXCEPT !.status = "raised", !.exc = "RuntimeError"]
  ELSE LET rec == store[entries[pos]]
           m   == matches(rec, f.kw, f.ks, 1)
           f1  == [f EXCEPT !.left = @ - 1, !.pos = pos, !.uid = entries[pos],
                            !.rec = rec, !.ki = m.ki]
       IN  IF m.raised THEN [f1 EXCEPT !.status = "raised", !.exc = "AttributeError"]
           ELSE IF m.hit THEN [f1 EXCEPT !.status = "yielded"]
           ELSE search(store, entries, f1, pos + 1)

\* the generator resumed at its yield: the rest of the keywords for the
\* record in hand, then the rest of the store
resumed(store, entries, f) ==
  LET m == matches(f.rec, f.kw, f.ks, f.ki + 1) IN
  IF m.raised THEN [f EXCEPT !.status = "raised", !.exc = "AttributeError"]
  ELSE IF m.hit THEN [f EXCEPT !.ki = m.ki, !.status = "yielded"]
  ELSE search(store, entries, f, f.pos + 1)

\* search_nodes(**kw) and search_edges(**kw) up to the first yield, over the
\* entries of the table of the dict
search_nodes(g, entries, kw, ks) ==
  search(g.nodes, entries, NewScan("nodes", kw, ks, Cardinality(DOMAIN g.nodes)), 1)

search_edges(g, entries, kw, ks) ==
  search(g.edges, entries, NewScan("edges", kw, ks, Cardinality(DOMAIN g.edges)), 1)

\* ------------------------------------------------------------------------
\* generate_subgraph
\* ------------------------------------------------------------------------
\* first loop: copy the nodes in the order given; self[node] raises KeyError
RECURSIVE copy_nodes(_, _, _, _)
copy_nodes(g, new, ns, i) ==
  IF i > Len(ns) THEN Return(new, 0, NoRec)
  ELSE LET r == getitem(g, ns[i]) IN
       IF ~r.ok THEN Raise(new, r.exc)
       ELSE copy_nodes(g, add_node(new, [f \in node_properties |-> r.rec[f]]).g, ns, i + 1)

\* the edge uids the second loop visits: for every node of node_set, in the
\* iteration order nord, the uids of its adjacency entry in the order eord
RECURSIVE visit_list(_, _, _, _)
visit_list(g, nord, eord, i) ==
  IF i > Len(nord) THEN <<>>
  ELSE SelectSeq(eord, LAMBDA e : e \in g.adjacency_list[nord[i]])
         \o visit_list(g, nord, eord, i + 1)

\* second loop: add the edges whose start and end are both in node_set, with
\* the start and end of the source record
RECURSIVE copy_edges(_, _, _, _, _)
copy_edges(g, new, node_set, todo, i) ==
  IF i > Len(todo) THEN Return(new, 0, NoRec)
  ELSE LET r == getitem(g, todo[i]) IN
       IF ~r.ok THEN Raise(new, r.exc)
       ELSE IF r.rec["start"] \in node_set /\ r.rec["end"] \in node_set
            THEN copy_edges(g,
                            add_edge(new, r.rec["start"], r.rec["end"],
                                     [f \in edge_properties |-> r.rec[f]]).g,
                            node_set, todo, i + 1)
            ELSE copy_edges(g, new, node_set, todo, i + 1)

\* the containers of a Graph object
StoreNames ==
  {"nodes", "edges", "adjacency_list", "unused_node_uids", "unused_edge_uids"}

\* a shallow copy of g: every container of the new object is a container of g
new_graph_shallow(g) ==
  [ nodes |-> g.nodes,
    edges |-> g.edges,
    adjacency_list |-> g.adjacency_list,
    unused_node_uids |-> g.unused_node_uids,
    unused_edge_uids |-> g.unused_edge_uids,
    shares |-> StoreNames ]

\* type(self)(node_properties, edge_properties): __init__ gives the new object
\* containers of its own; shares names the containers of the new object that
\* are containers of g
new_graph(g) ==
  [ nodes |-> EmptyGraph.nodes,
    edges |-> EmptyGraph.edges,
    adjacency_list |-> EmptyGraph.adjacency_list,
    unused_node_uids |-> EmptyGraph.unused_node_uids,
    unused_edge_uids |-> EmptyGraph.unused_edge_uids,
    shares |-> {} ]

\* the containers of the object own after a write to the object other: a
\* container that is also a container of other holds what other holds
written(own, other) ==
  [s \in DOMAIN own |-> IF s \in StoreNames /\ s \in other.shares THEN other[s] ELSE own[s]]

generate_subgraph(g, ns, nord, eord) ==
  LET n == copy_nodes(g, new_graph(g), ns, 1) IN
  IF ~n.ok THEN n
  ELSE copy_edges(g, n.g, Range(ns), visit_list(g, nord, eord, 1), 1)

\* ------------------------------------------------------------------------
\* The state machine: one Graph object and the calls made on it
\* ------------------------------------------------------------------------
VARIABLES
  nodes,              \* self.nodes: uid -> Node record
  edges,              \* self.edges: uid -> Edge record
  adjacency_list,     \* self.adjacency_list: start -> set of edge uids
  unused_node_uids,   \* deque of freed node uids
  unused_edge_uids,   \* deque of freed edge uids
  last,               \* the last call: operation, arguments, outcome
  calls,              \* the number of calls made so far
  removed,            \* the uids passed to a remove_node that returned
  sub,                \* the Graph returned by generate_subgraph
  found,              \* what the last search_nodes or search_edges has yielded
  scan,               \* the generator of that search, suspended or over
  tables,             \* the key tables of self.nodes and self.edges
  assigned,           \* the number of graph[uid] = value calls made so far
  unvisited,          \* a_star_traversal: the deque unvisited of each walk
  visited,            \* a_star_traversal: the deque visited of each walk
  next_uid,           \* a_star_traversal: the uid each walk is suspended at
  walk,               \* the state of each walk
  begun               \* the root each walk was created with, and the number
                      \* of calls made when it had been created

graphvars == <<nodes, edges, adjacency_list, unused_node_uids, unused_edge_uids>>

travvars == <<unvisited, visited, next_uid, walk, begun>>

vars == <<nodes, edges, adjacency_list, unused_node_uids, unused_edge_uids,
          last, calls, removed, sub, found, scan, tables, assigned,
          unvisited, visited, next_uid, walk, begun>>

\* the two instances of a_star_traversal
Modes == {"dfs", "bfs"}

NoGraph == [none |-> 0]

\* no walk
NoWalk == [root |-> 0, calls |-> 0]

\* no search generator
NoScan == [status |-> "none"]

\* The key tables are followed where a generator that is suspended over a
\* dict outlives a call; elsewhere the order in which a dict is iterated is
\* drawn at the call that iterates it.
NoTables == [none |-> 0]

\* the Graph object as the operators take it
Self ==
  [ nodes |-> nodes,
    edges |-> edges,
    adjacency_list |-> adjacency_list,
    unused_node_uids |-> unused_node_uids,
    unused_edge_uids |-> unused_edge_uids ]

\* no generator is being consumed and no subgraph is held
Idle == sub = NoGraph /\ \A m \in Modes : walk[m] = "idle"

\* the caller may change the graph: between two calls, and between two uids
\* taken from a walk, whose generator is then suspended at its yield or not
\* yet started; a generator that is over is dropped before the next call
Between == sub = NoGraph /\ \A m \in Modes : walk[m] \notin {"done", "raised"}

\* the record of a call; the keywords are kept for the calls that returned
\* or changed the object
Call(op, uid, kw, r) ==
  [op |-> op, uid |-> uid, kw |-> IF r.ok \/ r.g # Self THEN kw ELSE <<>>,
   ok |-> r.ok, exc |-> r.exc, ret |-> r.ret, rec |-> r.rec]

\* the call leaves the object as r.g and is recorded in last
Returns(op, uid, kw, r) ==
  /\ calls' = calls + 1
  /\ nodes' = r.g.nodes
  /\ edges' = r.g.edges
  /\ adjacency_list' = r.g.adjacency_list
  /\ unused_node_uids' = r.g.unused_node_uids
  /\ unused_edge_uids' = r.g.unused_edge_uids
  /\ last' = Call(op, uid, kw, r)

Init ==
  /\ nodes = EmptyGraph.nodes
  /\ edges = EmptyGraph.edges
  /\ adjacency_list = EmptyGraph.adjacency_list
  /\ unused_node_uids = EmptyGraph.unused_node_uids
  /\ unused_edge_uids = EmptyGraph.unused_edge_uids
  /\ last = [op |-> "init", uid |-> 0, kw |-> <<>>, ok |-> TRUE, exc |-> "none",
             ret |-> 0, rec |-> NoRec]
  /\ calls = 0
  /\ removed = {}
  /\ sub = NoGraph
  /\ found = <<>>
  /\ scan = NoScan
  /\ tables = NoTables
  /\ assigned = 0
  /\ unvisited = [m \in Modes |-> <<>>]
  /\ visited = [m \in Modes |-> <<>>]
  /\ next_uid = [m \in Modes |-> 0]
  /\ walk = [m \in Modes |-> "idle"]
  /\ begun = [m \in Modes |-> NoWalk]

\* the uids a caller holds: those add_node has returned, live or removed
Endpoints == (DOMAIN nodes) \cup removed

\* keyword arguments whose start and end are uids the caller holds
HeldKwArgs(names) ==
  { kw \in KwArgs(names) :
      \A f \in (DOMAIN kw) \cap required_edge_properties : kw[f] \in Endpoints }

\* get_node_uid() called by the caller: the uid is taken off the free list,
\* or computed from the size of the store, and nothing is stored under it
GetNodeUid ==
  /\ Between /\ calls < MaxCalls
  /\ LET a == get_node_uid(Self) IN
       Returns("get_node_uid", 0, <<>>,
               Return([Self EXCEPT !.unused_node_uids = a.rest], a.uid, NoRec))
  /\ UNCHANGED <<removed, sub, found, scan, tables, assigned, travvars>>

\* get_edge_uid() called by the caller
GetEdgeUid ==
  /\ Between /\ calls < MaxCalls
  /\ LET a == get_edge_uid(Self) IN
       Returns("get_edge_uid", 0, <<>>,
               Return([Self EXCEPT !.unused_edge_uids = a.rest], a.uid, NoRec))
  /\ UNCHANGED <<removed, sub, found, scan, tables, assigned, travvars>>

AddNode ==
  /\ Between /\ calls < MaxCalls
  /\ \E kw \in NewKwArgs(node_properties \cup {BadField}) :
       /\ order(Self) < MaxNodes
       /\ Returns("add_node", 0, kw, add_node(Self, kw))
       /\ UNCHANGED <<removed, sub, found, scan, tables, assigned, travvars>>

AddEdge ==
  /\ Between /\ calls < MaxCalls
  /\ \E start \in Endpoints, end \in Endpoints, kw \in NewKwArgs(edge_properties \cup {BadField}) :
       /\ size(Self) < MaxEdges
       /\ Returns("add_edge", 0, kw, add_edge(Self, start, end, kw))
       /\ UNCHANGED <<removed, sub, found, scan, tables, assigned, travvars>>

\* graph[uid]
GetItem ==
  /\ Idle /\ calls < MaxCalls
  /\ \E uid \in Uids :
       /\ Returns("getitem", uid, <<>>, getitem(Self, uid))
       /\ UNCHANGED <<removed, sub, found, scan, tables, assigned, travvars>>

ModifyNode ==
  /\ Between /\ calls < MaxCalls
  /\ \E uid \in Uids, kw \in KwArgs(NodeFields \cup {BadField}) :
       /\ Returns("modify_node", uid, kw, modify_node(Self, uid, kw))
       /\ UNCHANGED <<removed, sub, found, scan, tables, assigned, travvars>>

ModifyEdge ==
  /\ Between /\ calls < MaxCalls
  /\ \E uid \in Uids, kw \in HeldKwArgs(EdgeFields \cup {BadField}) :
       /\ Returns("modify_edge", uid, kw, modify_edge(Self, uid, kw))
       /\ UNCHANGED <<removed, sub, found, scan, tables, assigned, travvars>>

\* graph[uid] = value, with a Node record under a positive uid and a Node
\* or Edge record under another uid
ItemValues(uid) ==
  { Node([f \in node_properties |-> v]) : v \in AttrVals }
    \cup IF uid > 0 THEN {}
         ELSE { Edge(s, e, [f \in edge_properties |-> v]) :
                  s \in Endpoints, e \in Endpoints, v \in AttrVals }

SetItem ==
  /\ Between /\ calls < MaxCalls /\ assigned < MaxItemCalls
  /\ \E uid \in Uids :
       \E value \in ItemValues(uid) :
         /\ Returns("setitem", uid, value, setitem(Self, uid, value))
         /\ assigned' = assigned + 1
         /\ UNCHANGED <<removed, sub, found, scan, tables, travvars>>

RemoveNode ==
  /\ Between /\ calls < MaxCalls
  /\ \E uid \in Uids :
       LET r == remove_node(Self, uid) IN
       /\ Returns("remove_node", uid, <<>>, r)
       /\ removed' = IF r.ok THEN removed \cup {uid} ELSE removed
       /\ UNCHANGED <<sub, found, scan, tables, assigned, travvars>>

RemoveEdge ==
  /\ Between /\ calls < MaxCalls
  /\ \E uid \in Uids :
       /\ Returns("remove_edge", uid, <<>>, remove_edge(Self, uid))
       /\ UNCHANGED <<removed, sub, found, scan, tables, assigned, travvars>>

\* sequences of distinct uids
DistinctSeqs(S) == UNION { Orders(T) : T \in SUBSET S }

\* g.generate_subgraph(*ns): the source object is left as it is (an entry
\* that adjacency_list[node] creates is empty)
GenerateSubgraph ==
  /\ Idle /\ calls < MaxCalls
  /\ \E ns \in DistinctSeqs(Endpoints) \ {<<>>} :
       \E nord \in Orders(Range(ns)), eord \in Orders(EdgeIds) :
         LET r == generate_subgraph(Self, ns, nord, eord) IN
         /\ calls' = calls + 1
         /\ sub' = IF r.ok THEN r.g ELSE NoGraph
         /\ last' = [op |-> "generate_subgraph", uid |-> 0, kw |-> ns,
                     ok |-> r.ok, exc |-> r.exc, ret |-> 0, rec |-> NoRec]
         /\ nodes' = written(Self, r.g).nodes
         /\ edges' = written(Self, r.g).edges
         /\ adjacency_list' = written(Self, r.g).adjacency_list
         /\ unused_node_uids' = written(Self, r.g).unused_node_uids
         /\ unused_edge_uids' = written(Self, r.g).unused_edge_uids
         /\ UNCHANGED <<removed, found, scan, tables, assigned, travvars>>

\* the calls of add_node, add_edge, modify_node, modify_edge, remove_node and
\* remove_edge on the graph g: operation, uid, keywords and result
CallsOn(g) ==
  { <<"add_node", 0, kw, add_node(g, kw)>> :
      kw \in { k \in NewKwArgs(node_properties) : order(g) < MaxNodes } }
    \cup { <<"add_edge", 0, c[3], add_edge(g, c[1], c[2], c[3])>> :
             c \in (DOMAIN g.nodes) \X (DOMAIN g.nodes)
                     \X { k \in NewKwArgs(edge_properties) : size(g) < MaxEdges } }
    \cup { <<"modify_node", c[1], c[2], modify_node(g, c[1], c[2])>> :
             c \in Uids \X KwArgs(NodeFields) }
    \cup { <<"modify_edge", c[1], c[2], modify_edge(g, c[1], c[2])>> :
             c \in Uids \X KwArgs(EdgeFields) }
    \cup { <<"remove_node", uid, <<>>, remove_node(g, uid)>> : uid \in Uids }
    \cup { <<"remove_edge", uid, <<>>, remove_edge(g, uid)>> : uid \in Uids }

\* a call on the graph that generate_subgraph returned
SubgraphCall ==
  /\ sub # NoGraph /\ calls < MaxCalls
  /\ \E c \in CallsOn(sub) :
       /\ sub' = c[4].g
       /\ nodes' = written(Self, c[4].g).nodes
       /\ edges' = written(Self, c[4].g).edges
       /\ adjacency_list' = written(Self, c[4].g).adjacency_list
       /\ unused_node_uids' = written(Self, c[4].g).unused_node_uids
       /\ unused_edge_uids' = written(Self, c[4].g).unused_edge_uids
  /\ calls' = calls + 1
  /\ last' = [op |-> "subgraph_call", uid |-> 0, kw |-> <<>>,
              ok |-> TRUE, exc |-> "none", ret |-> 0, rec |-> NoRec]
  /\ UNCHANGED <<removed, found, scan, tables, assigned, travvars>>

\* a call on the source graph while the caller holds the returned graph
SourceCall ==
  /\ sub # NoGraph /\ calls < MaxCalls
  /\ \E c \in CallsOn(Self) :
       /\ Returns(c[1], c[2], c[3], c[4])
       /\ sub' = written(sub, [s \in DOMAIN sub |-> IF s \in StoreNames THEN c[4].g[s] ELSE sub[s]])
       /\ removed' = IF c[1] = "remove_node" /\ c[4].ok THEN removed \cup {c[2]} ELSE removed
  /\ UNCHANGED <<found, scan, tables, assigned, travvars>>

\* the caller drops the subgraph
DropSubgraph ==
  /\ sub # NoGraph
  /\ sub' = NoGraph
  /\ UNCHANGED <<graphvars, last, calls, removed, found, scan, tables, assigned, travvars>>

\* the caller calls depth_first_traversal(root) or
\* breadth_first_traversal(root): a generator is made, bound to root, and
\* none of its code has run
StartTraversal(m) ==
  /\ sub = NoGraph /\ walk[m] = "idle" /\ calls < MaxCalls
  /\ \E root \in Endpoints :
       /\ calls' = calls + 1
       /\ unvisited' = [unvisited EXCEPT ![m] = <<>>]
       /\ visited' = [visited EXCEPT ![m] = <<>>]
       /\ next_uid' = [next_uid EXCEPT ![m] = 0]
       /\ walk' = [walk EXCEPT ![m] = "created"]
       /\ begun' = [begun EXCEPT ![m] = [root |-> root, calls |-> calls + 1]]
       /\ last' = [op |-> "traversal", uid |-> root, kw |-> <<>>,
                   ok |-> TRUE, exc |-> "none", ret |-> 0, rec |-> NoRec]
       /\ UNCHANGED <<graphvars, removed, sub, found, scan, tables, assigned>>

\* the caller takes the next uid of a walk.  The first time the generator
\* runs from its start to the first yield; afterwards from the yield it is
\* suspended at to the next one, or to its end.  The two walks are advanced
\* in any order.
TraversalStep(m) ==
  /\ walk[m] \in {"created", "running"}
  /\ \E ord \in (IF walk[m] = "created" THEN {<<>>}
                 ELSE Orders(adjacency_list[next_uid[m]])) :
       LET r == IF walk[m] = "created"
                THEN a_star_start(m, begun[m].root)
                ELSE a_star_step(Self, m, unvisited[m], visited[m], next_uid[m], ord)
       IN
       /\ unvisited' = [unvisited EXCEPT ![m] = r.unvisited]
       /\ visited' = [visited EXCEPT ![m] = r.visited]
       /\ next_uid' = [next_uid EXCEPT ![m] = r.next_uid]
       /\ walk' = [walk EXCEPT ![m] = IF r.raised THEN "raised"
                                      ELSE IF r.done THEN "done"
                                      ELSE "running"]
  /\ UNCHANGED <<graphvars, last, calls, removed, sub, found, scan, tables,
                 assigned, begun>>

\* a walk is over and the caller drops what it yielded
EndTraversal(m) ==
  /\ walk[m] \in {"done", "raised"}
  /\ unvisited' = [unvisited EXCEPT ![m] = <<>>]
  /\ visited' = [visited EXCEPT ![m] = <<>>]
  /\ next_uid' = [next_uid EXCEPT ![m] = 0]
  /\ walk' = [walk EXCEPT ![m] = "idle"]
  /\ begun' = [begun EXCEPT ![m] = NoWalk]
  /\ UNCHANGED <<graphvars, last, calls, removed, sub, found, scan, tables, assigned>>

Next ==
  \/ GetNodeUid
  \/ GetEdgeUid
  \/ AddNode
  \/ AddEdge
  \/ GetItem
  \/ ModifyNode
  \/ ModifyEdge
  \/ RemoveNode
  \/ RemoveEdge
  \/ GenerateSubgraph
  \/ DropSubgraph
  \/ \E m \in Modes : StartTraversal(m)
  \/ \E m \in Modes : TraversalStep(m)
  \/ \E m \in Modes : EndTraversal(m)

Spec == Init /\ [][Next]_vars

TypeOK ==
  /\ DOMAIN nodes \subseteq NodeIds
  /\ DOMAIN edges \subseteq EdgeIds
  /\ \A n \in NodeIds : adjacency_list[n] \subseteq EdgeIds
  /\ Range(unused_node_uids) \subseteq NodeIds
  /\ Range(unused_edge_uids) \subseteq EdgeIds
  /\ calls \in Nat

\* ------------------------------------------------------------------------
\* The walks of a_star_traversal on graphs built by add_node and add_edge
\* ------------------------------------------------------------------------
MaxWalkNodes == 4

MaxWalkEdges == 4

WalkNodeIds == 1..MaxWalkNodes

\* the (start, end) arguments of add_edge
WalkPairs == WalkNodeIds \X WalkNodeIds

PairRank(p) == p[1] * (MaxWalkNodes + 1) + p[2]

\* the add_edge calls that build a graph; a walk does not look at the uid of
\* an edge, so the calls are taken in one order only
EdgeLists ==
  UNION { { es \in [1..k -> WalkPairs] :
              \A i \in 1..k, j \in 1..k : i < j => PairRank(es[i]) <= PairRank(es[j]) }
          : k \in 0..MaxWalkEdges }

\* Graph(): the adjacency index answers for every uid of WalkNodeIds
NewWalkGraph == [EmptyGraph EXCEPT !.adjacency_list = [n \in WalkNodeIds |-> {}]]

\* the graph after n calls of add_node
RECURSIVE with_nodes(_, _)
with_nodes(g, n) ==
  IF n = 0 THEN g
  ELSE add_node(with_nodes(g, n - 1), [f \in node_properties |-> 1]).g

\* the graph after the add_edge calls es[i], es[i+1], ...
RECURSIVE with_edges(_, _, _)
with_edges(g, es, i) ==
  IF i > Len(es) THEN g
  ELSE with_edges(add_edge(g, es[i][1], es[i][2], [f \in edge_properties |-> 1]).g,
                  es, i + 1)

WalkInit ==
  \E es \in EdgeLists :
    LET g == with_edges(with_nodes(NewWalkGraph, MaxWalkNodes), es, 1) IN
    /\ nodes = g.nodes
    /\ edges = g.edges
    /\ adjacency_list = g.adjacency_list
    /\ unused_node_uids = g.unused_node_uids
    /\ unused_edge_uids = g.unused_edge_uids
    /\ last = [op |-> "init", uid |-> 0, kw |-> <<>>, ok |-> TRUE, exc |-> "none",
               ret |-> 0, rec |-> NoRec]
    /\ calls = 0
    /\ removed = {}
    /\ sub = NoGraph
    /\ found = <<>>
    /\ scan = NoScan
    /\ tables = NoTables
    /\ assigned = 0
    /\ unvisited = [m \in Modes |-> <<>>]
    /\ visited = [m \in Modes |-> <<>>]
    /\ next_uid = [m \in Modes |-> 0]
    /\ walk = [m \in Modes |-> "idle"]
    /\ begun = [m \in Modes |-> NoWalk]

\* the roots of the walks: the first node added. EdgeLists holds every graph
\* over WalkNodeIds, so a walk from another root is one of these walks with
\* the uids renamed
WalkRoots == {1}

\* the caller calls depth_first_traversal(root) or breadth_first_traversal(root)
BeginWalk(m) ==
  \E root \in WalkRoots :
    /\ Idle
    /\ calls' = calls + 1
    /\ unvisited' = [unvisited EXCEPT ![m] = <<>>]
    /\ visited' = [visited EXCEPT ![m] = <<>>]
    /\ next_uid' = [next_uid EXCEPT ![m] = 0]
    /\ walk' = [walk EXCEPT ![m] = "created"]
    /\ begun' = [begun EXCEPT ![m] = [root |-> root, calls |-> calls + 1]]
    /\ last' = [op |-> "traversal", uid |-> root, kw |-> <<>>,
                ok |-> TRUE, exc |-> "none", ret |-> 0, rec |-> NoRec]
    /\ UNCHANGED <<graphvars, removed, sub, found, scan, tables, assigned>>

WalkNext ==
  \/ \E m \in Modes : BeginWalk(m)
  \/ \E m \in Modes : TraversalStep(m)

WalkSpec == WalkInit /\ [][WalkNext]_vars

\* ------------------------------------------------------------------------
\* search_nodes and search_edges on the stores a graph can hold
\* ------------------------------------------------------------------------
\* the starts and ends of the edges searched
SearchEnds == {1, 2}

\* the keywords of a search: a start or an end searched for is one of the
\* starts and ends of the edges
SearchKwArgs(names) ==
  { kw \in KwArgs(names) :
      \A f \in DOMAIN kw \cap required_edge_properties : kw[f] \in SearchEnds }

\* the calls that build a store before it is searched
MaxBuildCalls == 8

\* a graph with its key tables, after a call that left the graph as g
Built(b, g) == [g |-> g, tables |-> slots_after(b.tables, g)]

NewBuilt == [g |-> EmptyGraph, tables |-> [nodes |-> NewTable, edges |-> NewTable]]

\* the graph after n calls of add_node, with its tables
RECURSIVE built_nodes(_)
built_nodes(n) ==
  IF n = 0 THEN NewBuilt
  ELSE LET b == built_nodes(n - 1) IN
       Built(b, add_node(b.g, [f \in node_properties |-> 1]).g)

\* an add_node or a remove_node of a stored node, an add_edge or a
\* remove_edge of a stored edge
NodeCalls(b) ==
  { Built(b, add_node(b.g, [f \in node_properties |-> v]).g) :
      v \in IF order(b.g) < MaxNodes THEN AttrVals ELSE {} }
  \cup { Built(b, remove_node(b.g, uid).g) : uid \in DOMAIN b.g.nodes }

EdgeCalls(b) ==
  { Built(b, add_edge(b.g, c[1], c[2], [f \in edge_properties |-> c[3]]).g) :
      c \in IF size(b.g) < MaxEdges THEN SearchEnds \X SearchEnds \X NewVals ELSE {} }
  \cup { Built(b, remove_edge(b.g, uid).g) : uid \in DOMAIN b.g.edges }

\* the graphs that up to n such calls build from the graphs of B
RECURSIVE built_by(_, _, _)
built_by(B, onEdges, n) ==
  IF n = 0 THEN B
  ELSE built_by(B \cup UNION { IF onEdges THEN EdgeCalls(b) ELSE NodeCalls(b) : b \in B },
                onEdges, n - 1)

\* the graphs searched, with their tables: the node stores built by add_node
\* and remove_node calls, and the edge stores built by add_edge and
\* remove_edge calls on a graph of MaxNodes nodes
SearchGraphs ==
  built_by({NewBuilt}, FALSE, MaxBuildCalls)
    \cup built_by({built_nodes(MaxNodes)}, TRUE, MaxBuildCalls)

SearchInit ==
  \E b \in SearchGraphs :
    /\ nodes = b.g.nodes
    /\ edges = b.g.edges
    /\ adjacency_list = b.g.adjacency_list
    /\ unused_node_uids = b.g.unused_node_uids
    /\ unused_edge_uids = b.g.unused_edge_uids
    /\ last = [op |-> "init", uid |-> 0, kw |-> <<>>, ok |-> TRUE, exc |-> "none",
               ret |-> 0, rec |-> NoRec]
    /\ calls = 0
    /\ removed = {}
    /\ sub = NoGraph
    /\ found = <<>>
    /\ scan = NoScan
    /\ tables = b.tables
    /\ assigned = 0
    /\ unvisited = [m \in Modes |-> <<>>]
    /\ visited = [m \in Modes |-> <<>>]
    /\ next_uid = [m \in Modes |-> 0]
    /\ walk = [m \in Modes |-> "idle"]
    /\ begun = [m \in Modes |-> NoWalk]

\* the calls made between two yields of a search
MaxScanCalls == 2

\* the store that the generator scans
ScannedStore(g, f) == IF f.store = "nodes" THEN g.nodes ELSE g.edges

\* the table of the dict that the generator iterates
ScannedTable(ts, f) == IF f.store = "nodes" THEN ts.nodes ELSE ts.edges

\* what the generator yields at the yield it is suspended at: the record in
\* hand; the uid it was read under is kept with it
Yield(f) == [uid |-> f.uid, rec |-> f.rec]

\* one search is made on the graph: the caller takes the first record of
\* the generator
Searched(op, kw, f) ==
  /\ calls' = calls + 1
  /\ scan' = f
  /\ found' = IF f.status = "yielded" THEN <<Yield(f)>> ELSE <<>>
  /\ last' = [op |-> op, uid |-> 0, kw |-> kw, ok |-> f.status # "raised",
              exc |-> f.exc, ret |-> 0, rec |-> NoRec]
  /\ UNCHANGED <<graphvars, removed, sub, tables, assigned, travvars>>

SearchNodes ==
  /\ calls = 0
  /\ \E kw \in KwArgs(NodeFields \cup {BadField}) :
       \E ks \in Orders(DOMAIN kw) :
         Searched("search_nodes", kw, search_nodes(Self, tables.nodes.entries, kw, ks))

SearchEdges ==
  /\ calls = 0
  /\ \E kw \in SearchKwArgs(EdgeFields \cup {BadField}) :
       \E ks \in Orders(DOMAIN kw) :
         Searched("search_edges", kw, search_edges(Self, tables.edges.entries, kw, ks))

\* the caller takes the next record: the generator runs from the yield it is
\* suspended at to the next one, or to its end
SearchStep ==
  /\ scan.status = "yielded"
  /\ LET f == resumed(ScannedStore(Self, scan), ScannedTable(tables, scan).entries, scan) IN
     /\ scan' = f
     /\ found' = IF f.status = "yielded" THEN Append(found, Yield(f)) ELSE found
  /\ UNCHANGED <<graphvars, last, calls, removed, sub, tables, assigned, travvars>>

\* the calls made while the generator is suspended: add, modify and remove
\* on the store it scans, with the keywords of the schema and the uids of
\* stored records
ScanCalls(g, f) ==
  IF f.store = "nodes"
  THEN { <<"add_node", 0, kw, add_node(g, kw)>> :
           kw \in { k \in NewKwArgs(node_properties) :
                      DOMAIN k = node_properties /\ order(g) < MaxNodes } }
       \cup { <<"modify_node", c[1], c[2], modify_node(g, c[1], c[2])>> :
                c \in (DOMAIN g.nodes) \X (KwArgs(node_properties) \ {<<>>}) }
       \cup { <<"remove_node", uid, <<>>, remove_node(g, uid)>> : uid \in DOMAIN g.nodes }
  ELSE { <<"add_edge", 0, c[3], add_edge(g, c[1], c[2], c[3])>> :
           c \in SearchEnds \X SearchEnds
                   \X { k \in NewKwArgs(edge_properties) :
                          DOMAIN k = edge_properties /\ size(g) < MaxEdges } }
       \cup { <<"modify_edge", c[1], c[2], modify_edge(g, c[1], c[2])>> :
                c \in (DOMAIN g.edges) \X (KwArgs(edge_properties) \ {<<>>}) }
       \cup { <<"remove_edge", uid, <<>>, remove_edge(g, uid)>> : uid \in DOMAIN g.edges }

ScanCall ==
  /\ scan.status = "yielded" /\ calls <= MaxScanCalls
  /\ \E c \in ScanCalls(Self, scan) :
       /\ Returns(c[1], c[2], c[3], c[4])
       /\ tables' = slots_after(tables, c[4].g)
       /\ removed' = IF c[1] = "remove_node" /\ c[4].ok THEN removed \cup {c[2]} ELSE removed
  /\ UNCHANGED <<sub, found, scan, assigned, travvars>>

SearchNext ==
  \/ SearchNodes
  \/ SearchEdges
  \/ SearchStep
  \/ ScanCall

SearchSpec == SearchInit /\ [][SearchNext]_vars

\* ------------------------------------------------------------------------
\* add_node, add_edge, remove_node and remove_edge with the keywords of the
\* schema and the uids of stored records
\* ------------------------------------------------------------------------
MaxLiveCalls == 7

LiveAddNode ==
  /\ Idle /\ calls < MaxLiveCalls
  /\ order(Self) < MaxNodes
  /\ \E kw \in { k \in NewKwArgs(node_properties) : DOMAIN k = node_properties } :
       Returns("add_node", 0, kw, add_node(Self, kw))
  /\ UNCHANGED <<removed, sub, found, scan, tables, assigned, travvars>>

LiveAddEdge ==
  /\ Idle /\ calls < MaxLiveCalls
  /\ size(Self) < MaxEdges
  /\ \E start \in DOMAIN nodes, end \in DOMAIN nodes :
       \E kw \in { k \in NewKwArgs(edge_properties) : DOMAIN k = edge_properties } :
         Returns("add_edge", 0, kw, add_edge(Self, start, end, kw))
  /\ UNCHANGED <<removed, sub, found, scan, tables, assigned, travvars>>

LiveRemoveNode ==
  /\ Idle /\ calls < MaxLiveCalls
  /\ \E uid \in DOMAIN nodes :
       /\ Returns("remove_node", uid, <<>>, remove_node(Self, uid))
       /\ removed' = removed \cup {uid}
  /\ UNCHANGED <<sub, found, scan, tables, assigned, travvars>>

LiveRemoveEdge ==
  /\ Idle /\ calls < MaxLiveCalls
  /\ \E uid \in DOMAIN edges :
       Returns("remove_edge", uid, <<>>, remove_edge(Self, uid))
  /\ UNCHANGED <<removed, sub, found, scan, tables, assigned, travvars>>

LiveNext ==
  \/ LiveAddNode
  \/ LiveAddEdge
  \/ LiveRemoveNode
  \/ LiveRemoveEdge

LiveSpec == Init /\ [][LiveNext]_vars

\* ------------------------------------------------------------------------
\* add_node, add_edge and remove_edge calls, returning or raising: any
\* keywords for the adds, endpoints among the stored nodes, any edge uid for
\* remove_edge
\* ------------------------------------------------------------------------
BuildAddNode ==
  /\ Idle /\ calls < MaxLiveCalls
  /\ order(Self) < MaxNodes
  /\ \E kw \in NewKwArgs(node_properties \cup {BadField}) :
       Returns("add_node", 0, kw, add_node(Self, kw))
  /\ UNCHANGED <<removed, sub, found, scan, tables, assigned, travvars>>

BuildAddEdge ==
  /\ Idle /\ calls < MaxLiveCalls
  /\ size(Self) < MaxEdges
  /\ \E start \in DOMAIN nodes, end \in DOMAIN nodes :
       \E kw \in NewKwArgs(edge_properties \cup {BadField}) :
         Returns("add_edge", 0, kw, add_edge(Self, start, end, kw))
  /\ UNCHANGED <<removed, sub, found, scan, tables, assigned, travvars>>

BuildRemoveEdge ==
  /\ Idle /\ calls < MaxLiveCalls
  /\ \E uid \in EdgeIds :
       Returns("remove_edge", uid, <<>>, remove_edge(Self, uid))
  /\ UNCHANGED <<removed, sub, found, scan, tables, assigned, travvars>>

BuildNext ==
  \/ BuildAddNode
  \/ BuildAddEdge
  \/ BuildRemoveEdge

BuildSpec == Init /\ [][BuildNext]_vars

\* ------------------------------------------------------------------------
\* The six calls that change a graph, returning or raising
\* ------------------------------------------------------------------------
MutateNext ==
  \/ AddNode
  \/ AddEdge
  \/ ModifyNode
  \/ ModifyEdge
  \/ RemoveNode
  \/ RemoveEdge

MutateSpec == Init /\ [][MutateNext]_vars

\* ------------------------------------------------------------------------
\* The calls that change a graph, assignments graph[uid] = value among them,
\* and the read graph[uid]
\* ------------------------------------------------------------------------
ItemNext ==
  \/ MutateNext
  \/ GetItem
  \/ SetItem

ItemSpec == Init /\ [][ItemNext]_vars

\* ------------------------------------------------------------------------
\* A graph, the graph that generate_subgraph returned, and calls on both
\* ------------------------------------------------------------------------
PairNext ==
  \/ AddNode
  \/ AddEdge
  \/ RemoveNode
  \/ RemoveEdge
  \/ GenerateSubgraph
  \/ SubgraphCall
  \/ SourceCall

PairSpec == Init /\ [][PairNext]_vars

\* ------------------------------------------------------------------------
\* Properties
\* ------------------------------------------------------------------------
\* the step is a call of op
Called(op) == calls' = calls + 1 /\ last'.op = op

\* the live edges that start at n
EdgesFrom(n) == {e \in DOMAIN edges : edges[e]["start"] = n}

\* C1: for every node uid that no remove_node has removed, the adjacency entry
\* is exactly the set of live edges whose start is that uid
AdjacencyMatchesStarts ==
  \A n \in NodeIds \ removed : adjacency_list[n] = EdgesFrom(n)

\* C2: a uid returned by add_node was not the uid of a live node before the
\* call, and the call adds one to order()
AddNodeIssuesFreshUid ==
  [][ (Called("add_node") /\ last'.ok)
        => /\ last'.ret \notin DOMAIN nodes
           /\ Cardinality(DOMAIN nodes') = Cardinality(DOMAIN nodes) + 1 ]_vars

\* C3: with an empty free list add_node returns count(nodes)+1 and add_edge
\* -(count(edges)+1); a remove that returns puts its uid on top of the free
\* list of its kind, an add that returns takes the top of that list, and
\* nothing but an add or a remove that returns touches the list: the uid
\* freed last is the one the next add that returns is given
IssuanceOrder ==
  [][ /\ (Called("add_node") /\ last'.ok)
           => /\ unused_node_uids = <<>> => last'.ret = Cardinality(DOMAIN nodes) + 1
              /\ unused_node_uids # <<>>
                   => /\ last'.ret = Last(unused_node_uids)
                      /\ unused_node_uids' = Front(unused_node_uids)
      /\ (Called("add_edge") /\ last'.ok)
           => /\ unused_edge_uids = <<>> => last'.ret = 0 - (Cardinality(DOMAIN edges) + 1)
              /\ unused_edge_uids # <<>>
                   => /\ last'.ret = Last(unused_edge_uids)
                      /\ unused_edge_uids' = Front(unused_edge_uids)
      /\ (Called("remove_node") /\ last'.ok)
           => unused_node_uids' = Append(unused_node_uids, last'.uid)
      /\ (Called("remove_edge") /\ last'.ok)
           => unused_edge_uids' = Append(unused_edge_uids, last'.uid)
      /\ ~((Called("add_node") \/ Called("remove_node")) /\ last'.ok)
           => UNCHANGED unused_node_uids
      /\ ~((Called("add_edge") \/ Called("remove_edge")) /\ last'.ok)
           => UNCHANGED unused_edge_uids ]_vars

\* C4: an add_node or add_edge that raises leaves the stores, the adjacency
\* index and both free lists as they were
FailedAddHasNoEffect ==
  [][ (calls' = calls + 1 /\ last'.op \in {"add_node", "add_edge"} /\ ~last'.ok)
        => UNCHANGED graphvars ]_vars

\* C5: remove_edge of a live edge returns the removed record, and afterwards
\* the uid is in no adjacency entry, not in the edge store and on top of the
\* edge free list
RemoveEdgeRecycles ==
  [][ (Called("remove_edge") /\ last'.uid \in DOMAIN edges)
        => /\ last'.ok
           /\ last'.rec = edges[last'.uid]
           /\ last'.uid \notin DOMAIN edges'
           /\ \A n \in NodeIds : last'.uid \notin adjacency_list'[n]
           /\ unused_edge_uids' # <<>>
           /\ Last(unused_edge_uids') = last'.uid ]_vars

\* C6: modify_node / modify_edge of a live uid with keywords among the fields
\* returns the uid, and the record read afterwards is the original one with
\* exactly the given fields replaced
ModifyReplacesFields ==
  [][ /\ (Called("modify_node") /\ last'.uid \in DOMAIN nodes /\ last'.exc # "ValueError")
           => /\ last'.ok
              /\ last'.ret = last'.uid
              /\ getitem(Self', last'.uid).ok
              /\ getitem(Self', last'.uid).rec = replace(nodes[last'.uid], last'.kw)
      /\ (Called("modify_edge") /\ last'.uid \in DOMAIN edges /\ last'.exc # "ValueError")
           => /\ last'.ok
              /\ last'.ret = last'.uid
              /\ getitem(Self', last'.uid).ok
              /\ getitem(Self', last'.uid).rec = replace(edges[last'.uid], last'.kw) ]_vars

\* C7: modify_edge(id, start=s2) on a live edge whose start s1 is not s2
\* returns, and afterwards id is in adjacency[s2], not in adjacency[s1], and
\* the record starts at s2; a modify_edge that returns and does not change
\* the start leaves the adjacency index as it was
ModifyEdgeRelocates ==
  [][ (Called("modify_edge") /\ last'.uid \in DOMAIN edges /\ last'.exc # "ValueError")
        => LET id == last'.uid
               s1 == edges[id]["start"]
           IN  IF "start" \in DOMAIN last'.kw /\ last'.kw["start"] # s1
               THEN /\ last'.ok
                    /\ id \in adjacency_list'[last'.kw["start"]]
                    /\ id \notin adjacency_list'[s1]
                    /\ id \in DOMAIN edges'
                    /\ edges'[id]["start"] = last'.kw["start"]
               ELSE last'.ok => UNCHANGED adjacency_list ]_vars

\* the uid that the subgraph gives to the copy of the source node n, for a
\* call generate_subgraph(*ns): the copies are added to an empty graph in
\* the order of ns
CopyOf(ns, n) == CHOOSE i \in DOMAIN ns : ns[i] = n

\* the live source edges with both ends in S
EdgesWithin(S) ==
  {e \in DOMAIN edges : edges[e]["start"] \in S /\ edges[e]["end"] \in S}

\* C8: for every source edge with start s and end t in S the subgraph has an
\* edge from the copy of s to the copy of t, and every edge of the subgraph
\* has both ends among the nodes of the subgraph
SubgraphEndpointsMapped ==
  sub # NoGraph
    => /\ \A e \in EdgesWithin(Range(last.kw)) :
            \E d \in DOMAIN sub.edges :
              /\ sub.edges[d]["start"] = CopyOf(last.kw, edges[e]["start"])
              /\ sub.edges[d]["end"] = CopyOf(last.kw, edges[e]["end"])
       /\ \A d \in DOMAIN sub.edges :
            /\ sub.edges[d]["start"] \in DOMAIN sub.nodes
            /\ sub.edges[d]["end"] \in DOMAIN sub.nodes

\* C9: generate_subgraph of distinct live nodes S returns a graph with |S|
\* nodes and as many edges as the source has live edges with both ends in S
SubgraphCounts ==
  (last.op = "generate_subgraph" /\ Range(last.kw) \subseteq DOMAIN nodes)
    => /\ last.ok
       /\ sub # NoGraph
            => /\ order(sub) = Len(last.kw)
               /\ size(sub) = Cardinality(EdgesWithin(Range(last.kw)))

\* the uids reachable from the uids in S along the edges the adjacency index
\* holds
RECURSIVE Reachable(_)
Reachable(S) ==
  LET out == UNION {adjacency_list[n] : n \in S} \cap DOMAIN edges
      T   == S \cup {edges[e]["end"] : e \in out}
  IN  IF T = S THEN S ELSE Reachable(T)

NoDuplicates(s) == \A i, j \in DOMAIN s : s[i] = s[j] => i = j

\* what a walk has yielded so far
Yielded(m) ==
  IF walk[m] = "running" THEN Append(visited[m], next_uid[m]) ELSE visited[m]

\* every call made since walk m was created has created the other walk
Undisturbed(m) ==
  /\ walk[m] # "idle"
  /\ \/ begun[m].calls = calls
     \/ /\ begun[m].calls = calls - 1
        /\ \E o \in Modes \ {m} : walk[o] # "idle" /\ begun[o].calls = calls

\* C10: both walks from a root run to their end, neither yields a uid twice,
\* and both yield exactly the uids reachable from the root (for walks with
\* no other call made since they were created)
TraversalsAgree ==
  \A m \in Modes :
    Undisturbed(m) =>
      /\ walk[m] # "raised"
      /\ NoDuplicates(Yielded(m))
      /\ walk[m] = "done" => Range(Yielded(m)) = Reachable({begun[m].root})

\* the ends of the stored edges that the adjacency index lists for the uids of S
Successors(S) ==
  { edges[e]["end"] : e \in (UNION { adjacency_list[n] : n \in S \cap DOMAIN adjacency_list })
                               \cap DOMAIN edges }

\* the uids at most k hops from root
RECURSIVE Within(_, _)
Within(root, k) ==
  IF k = 0 THEN {root}
  ELSE Within(root, k - 1) \cup Successors(Within(root, k - 1))

\* the hop distance of a uid that some walk from root reaches
Hops(root, uid) ==
  CHOOSE k \in 0..Cardinality(DOMAIN adjacency_list) :
    /\ uid \in Within(root, k)
    /\ \A j \in 0..(k - 1) : uid \notin Within(root, j)

\* C11: breadth_first_traversal(root) yields root first and yields a uid that
\* is fewer hops from root before every uid that is more hops from root,
\* whatever the order in which the adjacency sets are iterated
BreadthFirstByLevel ==
  walk["bfs"] # "idle" =>
    /\ Yielded("bfs") # <<>> => Yielded("bfs")[1] = last.uid
    /\ \A i, j \in DOMAIN Yielded("bfs") :
         Hops(last.uid, Yielded("bfs")[i]) < Hops(last.uid, Yielded("bfs")[j]) => i < j

\* a finished breadth-first walk over two uids one hop away and one two hops away
TwoLevelsWalked ==
  /\ walk["bfs"] = "done"
  /\ Len(Yielded("bfs")) = 4
  /\ Hops(last.uid, Yielded("bfs")[2]) = 1
  /\ Hops(last.uid, Yielded("bfs")[3]) = 1
  /\ Hops(last.uid, Yielded("bfs")[4]) = 2

\* the store in which a call looks its uid up: remove_node and remove_edge
\* pop it from their own store, the others go through self[uid], which takes
\* a positive uid to the node store and any other to the edge store
LookupStore(op, uid) ==
  IF op = "remove_node" THEN DOMAIN nodes
  ELSE IF op = "remove_edge" THEN DOMAIN edges
  ELSE IF uid > 0 THEN DOMAIN nodes
  ELSE DOMAIN edges

UidCalls == {"getitem", "modify_node", "modify_edge", "remove_node", "remove_edge"}

\* C12: graph[uid], modify_node(uid), modify_edge(uid), remove_node(uid) and
\* remove_edge(uid) with a uid that is not a key of the store the call looks
\* it up in raise, and leave the node store, the edge store, the adjacency
\* index and both free lists as they were
UnknownUidRaises ==
  [][ \A op \in UidCalls :
        Called(op) /\ last'.uid \notin LookupStore(op, last'.uid)
          => /\ ~last'.ok
             /\ last'.exc = "KeyError"
             /\ UNCHANGED graphvars ]_vars

\* such a call has been made on a graph that holds nodes, edges and a freed
\* uid
UnknownUidCalled ==
  /\ last.op \in UidCalls
  /\ last.uid \notin LookupStore(last.op, last.uid)
  /\ ~last.ok
  /\ nodes # <<>> /\ edges # <<>>
  /\ (unused_node_uids # <<>> \/ unused_edge_uids # <<>>)

\* the store a search scans
Scanned == IF last.op = "search_nodes" THEN nodes ELSE edges

\* the uids of the scanned records of which some keyword of the search holds
AnyHolds ==
  { uid \in DOMAIN Scanned :
      \E k \in DOMAIN last.kw : Scanned[uid][k] = last.kw[k] }

\* C13: with at least one keyword, the set of records that search_nodes
\* (search_edges) yields is the set of the stored node (edge) records of
\* which at least one keyword holds (for a search consumed to its end with
\* no other call made meanwhile: such a call would be the last call)
SearchYieldsAnyMatch ==
  last.op \in {"search_nodes", "search_edges"} /\ scan.status = "done" /\ last.kw # <<>>
    => { found[i].rec : i \in DOMAIN found } = { Scanned[uid] : uid \in AnyHolds }

\* a search with two keywords over a record of which one holds, which is
\* yielded, and a record of which none holds, which is not
SomeButNotAllMatched ==
  /\ last.op = "search_edges" /\ scan.status = "done"
  /\ Cardinality(DOMAIN last.kw) = 2
  /\ \E u \in AnyHolds :
       /\ \E k \in DOMAIN last.kw : Scanned[u][k] # last.kw[k]
       /\ \E i \in DOMAIN found : found[i].uid = u
  /\ \E u \in DOMAIN Scanned \ AnyHolds :
       \A i \in DOMAIN found : found[i].rec # Scanned[u]

\* the stored edges that start or end at a uid
EdgesAt(uid) ==
  { e \in DOMAIN edges : edges[e]["start"] = uid \/ edges[e]["end"] = uid }

\* C14: remove_node(uid) on a stored node takes uid out of the node store,
\* empties the adjacency entry of uid and pushes uid on the node free list;
\* the edge store, the edge free list and the adjacency entries of the other
\* nodes stay as they were, so the edges that start or end at uid are still
\* stored
RemoveNodeLeavesEdges ==
  [][ Called("remove_node") /\ last'.uid \in DOMAIN nodes
        => /\ last'.ok
           /\ nodes' = Pop(nodes, last'.uid)
           /\ unused_node_uids' = Append(unused_node_uids, last'.uid)
           /\ adjacency_list'[last'.uid] = {}
           /\ \A n \in DOMAIN adjacency_list \ {last'.uid} :
                adjacency_list'[n] = adjacency_list[n]
           /\ edges' = edges
           /\ unused_edge_uids' = unused_edge_uids
           /\ \A e \in EdgesAt(last'.uid) : e \in DOMAIN edges' ]_vars

\* a node has been removed that an edge started at and another edge ended at
EndpointRemoved ==
  /\ last.op = "remove_node" /\ last.ok
  /\ \E e \in DOMAIN edges : edges[e]["start"] = last.uid
  /\ \E e \in DOMAIN edges : edges[e]["end"] = last.uid /\ edges[e]["start"] # last.uid
  /\ \E n \in DOMAIN nodes : adjacency_list[n] # {}

\* the calls that change a graph
SourceCalls ==
  {"add_node", "add_edge", "modify_node", "modify_edge", "remove_node", "remove_edge"}

\* C15: generate_subgraph leaves the node store, the edge store, the free
\* lists and the adjacency index of the source as they were; a call on the
\* returned graph leaves the source as it was, and a call on the source
\* leaves the returned graph as it was
SubgraphIsIndependent ==
  [][ /\ Called("generate_subgraph") => UNCHANGED graphvars
      /\ Called("subgraph_call") => UNCHANGED graphvars
      /\ sub # NoGraph /\ (\E op \in SourceCalls : Called(op)) => UNCHANGED sub ]_vars

\* the returned graph has been changed by a call, and then the source
BothChanged ==
  /\ last.op = "modify_node"
  /\ sub # NoGraph
  /\ sub.unused_node_uids # <<>>
  /\ \E n \in DOMAIN nodes : nodes[n]["city"] = 2

\* C16: the uid that add_edge returns is not the uid of an edge stored just
\* before the call, so no stored edge record is overwritten and no uid of a
\* stored edge is indexed under two nodes
AddEdgeIssuesFreshUid ==
  [][ Called("add_edge") /\ last'.ok
        => /\ last'.ret \notin DOMAIN edges
           /\ \A n \in NodeIds, m \in NodeIds :
                n # m => adjacency_list'[n] \cap adjacency_list'[m] \cap DOMAIN edges' = {} ]_vars

\* what a walk had yielded before its i-th uid
YieldedBefore(m, i) == { Yielded(m)[j] : j \in 1..(i - 1) }

\* C17: when depth_first_traversal has yielded v and some stored edge that
\* the adjacency index lists for v ends at a uid not yielded so far, the
\* next uid it yields is the end of such an edge of v
DepthFirstDives ==
  walk["dfs"] # "idle" =>
    \A i \in 1..(Len(Yielded("dfs")) - 1) :
      Successors({Yielded("dfs")[i]}) \ YieldedBefore("dfs", i + 1) # {}
        => Yielded("dfs")[i + 1] \in Successors({Yielded("dfs")[i]})

\* C18: depth_first_traversal and breadth_first_traversal yield the root
\* first, and every other uid after a uid from which a stored edge that the
\* adjacency index lists leads to it, whatever the order in which the
\* adjacency sets are iterated
YieldedAfterPredecessor ==
  \A m \in Modes :
    walk[m] # "idle" =>
      /\ Yielded(m) # <<>> => Yielded(m)[1] = last.uid
      /\ \A j \in 2..Len(Yielded(m)) :
           \E i \in 1..(j - 1) : Yielded(m)[j] \in Successors({Yielded(m)[i]})

\* a finished walk that yielded, not right after the root, a uid that only
\* one uid other than the root has an edge to
SinglePredecessorWalked ==
  \E m \in Modes :
    /\ walk[m] = "done"
    /\ \E j \in 3..Len(Yielded(m)) :
         \E u \in DOMAIN nodes \ {last.uid} :
           { n \in DOMAIN nodes : Yielded(m)[j] \in Successors({n}) } = {u}

\* C19: one search_nodes or search_edges call yields every stored record at
\* most once, also when several keywords of the search hold of it (for a
\* search with no other call made meanwhile)
SearchYieldsOnce ==
  last.op \in {"search_nodes", "search_edges"}
    => \A i, j \in DOMAIN found : found[i].uid = found[j].uid => i = j

\* C20: right after remove_node(n) has returned, for every other stored node
\* m: get_adjacent_uids(m) does not yield n, get_adjacent_nodes(m) does not
\* raise, and n is not among the uids that a walk from m reaches
RemovedNodeUnlisted ==
  last.op = "remove_node" /\ last.ok =>
    \A m \in DOMAIN nodes :
      /\ \A ord \in Orders(adjacency_list[m]) :
           /\ last.uid \notin Range(get_adjacent_uids(Self, m, ord).uids)
           /\ ~get_adjacent_nodes(Self, m, ord).raised
      /\ last.uid \notin Reachable({m})

\* C21: for every stored node n, whatever the order in which the adjacency
\* entry is iterated, get_adjacent_uids(n) does not raise and yields n first
\* and then one uid per stored edge whose start is n, the end of that edge:
\* nothing for an edge that only ends at n, n again for a self-loop, nothing
\* for an edge that was removed
AdjacentUidsAreOutgoingEnds ==
  \A n \in DOMAIN nodes :
    \A ord \in Orders(adjacency_list[n]) :
      LET a == get_adjacent_uids(Self, n, ord) IN
      /\ ~a.raised
      /\ a.uids[1] = n
      /\ Len(a.uids) = 1 + Cardinality(EdgesFrom(n))
      /\ Range(Tail(a.uids)) = { edges[e]["end"] : e \in EdgesFrom(n) }

\* C22: for every stored node n, get_outgoing_uids(n) does not raise and
\* yields exactly the uids of the stored edges whose start is n, and
\* get_outgoing_edges(n) does not raise and yields exactly the records of
\* those edges (nothing for a node that no stored edge starts at)
OutgoingAreEdgesFromNode ==
  \A n \in DOMAIN nodes :
    LET u == get_outgoing_uids(Self, n)
        e == get_outgoing_edges(Self, n) IN
    /\ ~u.raised
    /\ Range(u.uids) = EdgesFrom(n)
    /\ Len(u.uids) = Cardinality(EdgesFrom(n))
    /\ ~e.raised
    /\ Range(e.edges) = { edges[x] : x \in EdgesFrom(n) }
    /\ Len(e.edges) = Cardinality(EdgesFrom(n))

\* C23: no free list holds a uid twice, no free list holds a uid that is a
\* key of its store, the node free list and the node store hold positive
\* uids only, the edge free list and the edge store negative uids only
FreeListsSound ==
  /\ NoDuplicates(unused_node_uids)
  /\ NoDuplicates(unused_edge_uids)
  /\ Range(unused_node_uids) \cap DOMAIN nodes = {}
  /\ Range(unused_edge_uids) \cap DOMAIN edges = {}
  /\ \A u \in Range(unused_node_uids) \cup DOMAIN nodes : u > 0
  /\ \A u \in Range(unused_edge_uids) \cup DOMAIN edges : u < 0

\* C23 witness: an add_node that raised has taken a uid off the node free
\* list, which still holds another one, while a node is stored
FailedAddLeftFreeUids ==
  /\ last.op = "add_node" /\ ~last.ok
  /\ unused_node_uids # <<>>
  /\ DOMAIN nodes # {}
  /\ Cardinality(removed) > Len(unused_node_uids)

====
